---- MODULE Spec2Model ----
(***************************************************************************)
(* Model of binary-parser/kwasm_ast.py: the constructors that build K      *)
(* terms (KApply nodes) for WebAssembly modules, types and instructions.   *)
(* A term is a record [label, args].  A Python list handed to a            *)
(* constructor is the variable items; a constructor that mutates its       *)
(* argument returns the term together with the list's final contents.      *)
(***************************************************************************)
EXTENDS Integers, Sequences, FiniteSets, TLC

VARIABLES items, given, op, args, kw, result, prev

vars == <<items, given, op, args, kw, result, prev>>

(* Bounds *)
MaxLen == 3
MaxKw == 1

(* pyk.kast.KApply(label, args) *)
KApply(label, children) == [label |-> label, args |-> children]

(* ---- KLabels ---- *)
MODULE_KLABEL == "aModuleDecl"
MODULE_METADATA == "moduleMeta"
TYPE == "aTypeDefn"
FUNC_TYPE == "aFuncType"
VEC_TYPE == "aVecType"
VAL_TYPES == "listValTypes"
VAL_TYPES_NIL == ".List{\"listValTypes\"}_ValTypes"
I32 == "i32"
I64 == "i32"
FUNC == "aFuncDefn"
FUNC_METADATA == "funcMeta"
DEFNS == "___WASM-COMMON-SYNTAX_Defns_Defn_Defns"
INSTRS == "___WASM-COMMON-SYNTAX_Instrs_Instr_Instrs"
EMPTY_STMTS == ".List{\"listStmt\"}_EmptyStmts"
EMPTY_ID_KLABEL == ".Identifier"
EMPTY_MAP == ".Map"

(* ---- Lists ---- *)

(* The loop of KNamedList on a list that pops from the front instead. *)
RECURSIVE KNamedListLoopFront(_, _, _)
KNamedListLoopFront(klabel, list, tail) ==
  IF list = <<>>
    THEN [term |-> tail, items |-> list]
    ELSE KNamedListLoopFront(klabel, Tail(list), KApply(klabel, <<Head(list), tail>>))

(* while not items == []: last = items.pop(); tail = KApply(klabel, [last, tail]) *)
RECURSIVE KNamedListLoop(_, _, _)
KNamedListLoop(klabel, list, tail) ==
  IF list = <<>>
    THEN [term |-> tail, items |-> list]
    ELSE LET last == list[Len(list)]
             rest == SubSeq(list, 1, Len(list) - 1)
         IN  KNamedListLoop(klabel, rest, KApply(klabel, <<last, tail>>))

(* KNamedList that starts the chain from a node under the cons label. *)
KNamedListConsNil(klabel, empty_klabel, list) ==
  KNamedListLoop(klabel, list, KApply(klabel, <<>>))

(* Returns the built term and the contents the argument list is left with. *)
KNamedList(klabel, empty_klabel, list) ==
  KNamedListLoop(klabel, list, KApply(empty_klabel, <<>>))

defns(list) == KNamedList(DEFNS, EMPTY_STMTS, list)

instrs(list) == KNamedList(INSTRS, EMPTY_STMTS, list)

(* val_types terminated with the statements marker. *)
val_types_stmts(list) == KNamedList(VAL_TYPES, EMPTY_STMTS, list)

val_types(list) == KNamedList(VAL_TYPES, VAL_TYPES_NIL, list)

(* ---- Empties ---- *)
EMPTY_ID == KApply(EMPTY_ID_KLABEL, <<>>)

EMPTY_DEFNS == KApply(EMPTY_STMTS, <<>>)

(* Module metadata built under the function-metadata label. *)
EMPTY_MODULE_METADATA_func == KApply(FUNC_METADATA, <<EMPTY_ID, KApply(EMPTY_MAP, <<>>)>>)

EMPTY_MODULE_METADATA == KApply(MODULE_METADATA, <<EMPTY_ID, KApply(EMPTY_MAP, <<>>)>>)

EMPTY_FUNC_METADATA == KApply(FUNC_METADATA, <<EMPTY_ID, KApply(EMPTY_MAP, <<>>)>>)

(* ---- ValTypes ---- *)
i32 == KApply("i32", <<>>)

(* i64 built from the label constant I64. *)
i64_from_I64 == KApply(I64, <<>>)

i64 == KApply("i64", <<>>)

f32 == KApply("f32", <<>>)

f64 == KApply("f64", <<>>)

vec_type(valtypes) == KApply(VEC_TYPE, <<valtypes>>)

func_type(params, results) == KApply(FUNC_TYPE, <<params, results>>)

(* ---- Instrs ---- *)
NOP == KApply("aNop", <<>>)

(* BLOCK with its children swapped. *)
BLOCK_swapped(vtype, body) == KApply("aBlock", <<body, vtype>>)

BLOCK(vtype, body) == KApply("aBlock", <<vtype, body>>)

(* BR with a label of its own. *)
BR_own == KApply("aBr", <<>>)

BR == NOP
BR_IF == NOP
BR_TABLE == NOP
CALL == NOP
CALL_INDIRECT == NOP
DROP == NOP
END == NOP
F32_ABS == NOP
F32_CEIL == NOP
F32_CONST == NOP
F32_DEMOTE_F64 == NOP
F32_FLOOR == NOP
F32_LOAD == NOP
F32_NEAREST == NOP
F32_NEG == NOP
F32_SQRT == NOP
F32_STORE == NOP
F32_TRUNC == NOP
F64_ADD == NOP
F64_CONVERT_S_I32 == NOP
F64_CONVERT_U_I32 == NOP
F64_COPYSIGN == NOP
F64_DIV == NOP
F64_EQ == NOP
F64_GE == NOP
F64_GT == NOP
F64_LE == NOP
F64_LT == NOP
F64_MAX == NOP
F64_MIN == NOP
F64_MUL == NOP
F64_NE == NOP
F64_PROMOTE_F32 == NOP
F64_REINTERPRET_I64 == NOP
F64_SUB == NOP
GET_GLOBAL == NOP
GET_LOCAL == NOP
I32_CLZ == NOP
I32_CONST == NOP
I32_CTZ == NOP
I32_EQ == NOP
I32_EQZ == NOP
I32_GE_S == NOP
I32_GE_U == NOP
I32_GT_S == NOP
I32_GT_U == NOP
I32_LE_S == NOP
I32_LE_U == NOP
I32_LOAD == NOP
I32_LOAD16_S == NOP
I32_LOAD16_U == NOP
I32_LOAD8_S == NOP
I32_LOAD8_U == NOP
I32_LT_S == NOP
I32_LT_U == NOP
I32_NE == NOP
I32_POPCNT == NOP
I32_REINTERPRET_F32 == NOP
I32_STORE == NOP
I32_STORE16 == NOP
I32_STORE8 == NOP
I32_TRUNC_S_F64 == NOP
I32_WRAP_I64 == NOP
I64_ADD == NOP
I64_AND == NOP
I64_DIV_S == NOP
I64_DIV_U == NOP
I64_EXTEND_S_I32 == NOP
I64_EXTEND_U_I32 == NOP
I64_LOAD32_S == NOP
I64_LOAD32_U == NOP
I64_MUL == NOP
I64_OR == NOP
I64_REM_S == NOP
I64_REM_U == NOP
I64_ROTL == NOP
I64_ROTR == NOP
I64_SHL == NOP
I64_SHR_S == NOP
I64_SHR_U == NOP
I64_STORE32 == NOP
I64_SUB == NOP
I64_TRUNC_U_F32 == NOP
I64_XOR == NOP
IF_INSTR == NOP
LOOP == NOP
MEMORY_GROW == NOP
MEMORY_SIZE == NOP
RETURN == NOP
SELECT == NOP
SET_GLOBAL == NOP
SET_LOCAL == NOP
TEE_LOCAL == NOP
UNREACHABLE == NOP

(* Every named instruction constant, by name. *)
INSTR ==
  [NOP |-> NOP,
     BR |-> BR,
     BR_IF |-> BR_IF,
     BR_TABLE |-> BR_TABLE,
     CALL |-> CALL,
     CALL_INDIRECT |-> CALL_INDIRECT,
     DROP |-> DROP,
     END |-> END,
     F32_ABS |-> F32_ABS,
     F32_CEIL |-> F32_CEIL,
     F32_CONST |-> F32_CONST,
     F32_DEMOTE_F64 |-> F32_DEMOTE_F64,
     F32_FLOOR |-> F32_FLOOR,
     F32_LOAD |-> F32_LOAD,
     F32_NEAREST |-> F32_NEAREST,
     F32_NEG |-> F32_NEG,
     F32_SQRT |-> F32_SQRT,
     F32_STORE |-> F32_STORE,
     F32_TRUNC |-> F32_TRUNC,
     F64_ADD |-> F64_ADD,
     F64_CONVERT_S_I32 |-> F64_CONVERT_S_I32,
     F64_CONVERT_U_I32 |-> F64_CONVERT_U_I32,
     F64_COPYSIGN |-> F64_COPYSIGN,
     F64_DIV |-> F64_DIV,
     F64_EQ |-> F64_EQ,
     F64_GE |-> F64_GE,
     F64_GT |-> F64_GT,
     F64_LE |-> F64_LE,
     F64_LT |-> F64_LT,
     F64_MAX |-> F64_MAX,
     F64_MIN |-> F64_MIN,
     F64_MUL |-> F64_MUL,
     F64_NE |-> F64_NE,
     F64_PROMOTE_F32 |-> F64_PROMOTE_F32,
     F64_REINTERPRET_I64 |-> F64_REINTERPRET_I64,
     F64_SUB |-> F64_SUB,
     GET_GLOBAL |-> GET_GLOBAL,
     GET_LOCAL |-> GET_LOCAL,
     I32_CLZ |-> I32_CLZ,
     I32_CONST |-> I32_CONST,
     I32_CTZ |-> I32_CTZ,
     I32_EQ |-> I32_EQ,
     I32_EQZ |-> I32_EQZ,
     I32_GE_S |-> I32_GE_S,
     I32_GE_U |-> I32_GE_U,
     I32_GT_S |-> I32_GT_S,
     I32_GT_U |-> I32_GT_U,
     I32_LE_S |-> I32_LE_S,
     I32_LE_U |-> I32_LE_U,
     I32_LOAD |-> I32_LOAD,
     I32_LOAD16_S |-> I32_LOAD16_S,
     I32_LOAD16_U |-> I32_LOAD16_U,
     I32_LOAD8_S |-> I32_LOAD8_S,
     I32_LOAD8_U |-> I32_LOAD8_U,
     I32_LT_S |-> I32_LT_S,
     I32_LT_U |-> I32_LT_U,
     I32_NE |-> I32_NE,
     I32_POPCNT |-> I32_POPCNT,
     I32_REINTERPRET_F32 |-> I32_REINTERPRET_F32,
     I32_STORE |-> I32_STORE,
     I32_STORE16 |-> I32_STORE16,
     I32_STORE8 |-> I32_STORE8,
     I32_TRUNC_S_F64 |-> I32_TRUNC_S_F64,
     I32_WRAP_I64 |-> I32_WRAP_I64,
     I64_ADD |-> I64_ADD,
     I64_AND |-> I64_AND,
     I64_DIV_S |-> I64_DIV_S,
     I64_DIV_U |-> I64_DIV_U,
     I64_EXTEND_S_I32 |-> I64_EXTEND_S_I32,
     I64_EXTEND_U_I32 |-> I64_EXTEND_U_I32,
     I64_LOAD32_S |-> I64_LOAD32_S,
     I64_LOAD32_U |-> I64_LOAD32_U,
     I64_MUL |-> I64_MUL,
     I64_OR |-> I64_OR,
     I64_REM_S |-> I64_REM_S,
     I64_REM_U |-> I64_REM_U,
     I64_ROTL |-> I64_ROTL,
     I64_ROTR |-> I64_ROTR,
     I64_SHL |-> I64_SHL,
     I64_SHR_S |-> I64_SHR_S,
     I64_SHR_U |-> I64_SHR_U,
     I64_STORE32 |-> I64_STORE32,
     I64_SUB |-> I64_SUB,
     I64_TRUNC_U_F32 |-> I64_TRUNC_U_F32,
     I64_XOR |-> I64_XOR,
     LOOP |-> LOOP,
     MEMORY_GROW |-> MEMORY_GROW,
     MEMORY_SIZE |-> MEMORY_SIZE,
     RETURN |-> RETURN,
     SELECT |-> SELECT,
     SET_GLOBAL |-> SET_GLOBAL,
     SET_LOCAL |-> SET_LOCAL,
     TEE_LOCAL |-> TEE_LOCAL,
     UNREACHABLE |-> UNREACHABLE] @@ ("IF" :> IF_INSTR)

VALTYPE == [i32 |-> i32, i64 |-> i64, f32 |-> f32, f64 |-> f64]

(* ---- Declarations ---- *)

(* A keyword argument when the caller passes it, the parameter's default otherwise. *)
Arg(kwargs, name, default) == IF name \in DOMAIN kwargs THEN kwargs[name] ELSE default

(* type whose metadata defaults to the function metadata term. *)
type_funcmeta(ft, kwargs) == KApply(TYPE, <<ft, Arg(kwargs, "metadata", EMPTY_FUNC_METADATA)>>)

type(ft, kwargs) == KApply(TYPE, <<ft, Arg(kwargs, "metadata", EMPTY_ID)>>)

func(ty, locals, body, kwargs) ==
  KApply(FUNC, <<ty, locals, body, Arg(kwargs, "metadata", EMPTY_FUNC_METADATA)>>)

ModuleParams ==
  <<"types", "funcs", "tables", "mems", "globs", "elem", "data", "start",
    "imports", "exports", "metadata">>

(* module with the types and funcs children in each other's place. *)
module_swapped(kwargs) ==
  KApply(MODULE_KLABEL,
         <<Arg(kwargs, "funcs", EMPTY_DEFNS),
           Arg(kwargs, "types", EMPTY_DEFNS),
           Arg(kwargs, "tables", EMPTY_DEFNS),
           Arg(kwargs, "mems", EMPTY_DEFNS),
           Arg(kwargs, "globs", EMPTY_DEFNS),
           Arg(kwargs, "elem", EMPTY_DEFNS),
           Arg(kwargs, "data", EMPTY_DEFNS),
           Arg(kwargs, "start", EMPTY_DEFNS),
           Arg(kwargs, "imports", EMPTY_DEFNS),
           Arg(kwargs, "exports", EMPTY_DEFNS),
           Arg(kwargs, "metadata", EMPTY_MODULE_METADATA)>>)

module(kwargs) ==
  KApply(MODULE_KLABEL,
         <<Arg(kwargs, "types", EMPTY_DEFNS),
           Arg(kwargs, "funcs", EMPTY_DEFNS),
           Arg(kwargs, "tables", EMPTY_DEFNS),
           Arg(kwargs, "mems", EMPTY_DEFNS),
           Arg(kwargs, "globs", EMPTY_DEFNS),
           Arg(kwargs, "elem", EMPTY_DEFNS),
           Arg(kwargs, "data", EMPTY_DEFNS),
           Arg(kwargs, "start", EMPTY_DEFNS),
           Arg(kwargs, "imports", EMPTY_DEFNS),
           Arg(kwargs, "exports", EMPTY_DEFNS),
           Arg(kwargs, "metadata", EMPTY_MODULE_METADATA)>>)

(* ---- The caller ---- *)

(* No term: the value of result before any call. *)
NoTerm == [label |-> "None", args |-> <<>>]

NoPrev == [op |-> "none", result |-> NoTerm]

NoKw == <<>>

SeqOps == {"defns", "instrs", "val_types"}

InstrNames == DOMAIN INSTR

ValTypeNames == DOMAIN VALTYPE

(* Element terms a caller puts into a list. *)
Elems == {i32, i64, f32, f64, NOP}

Lists == UNION {[1..n -> Elems] : n \in 0..MaxLen}

(* Terms a caller passes to the declaration and block constructors. *)
ArgTerms ==
  {i32, NOP, instrs(<<NOP>>).term, vec_type(val_types(<<i32>>).term)}

MetaTerms == {EMPTY_ID, EMPTY_FUNC_METADATA}

(* The operation before the one being taken, when it was a call of a *)
(* sequence constructor.                                             *)
Last ==
  IF op \in SeqOps
    THEN [op |-> op, result |-> result]
    ELSE NoPrev

Init ==
  /\ items = <<>>
  /\ given = <<>>
  /\ op = "import"
  /\ args = <<>>
  /\ kw = NoKw
  /\ result = NoTerm
  /\ prev = NoPrev

(* items = [ ... ] *)
MakeList(list) ==
  /\ items' = list
  /\ given' = <<>>
  /\ op' = "list"
  /\ args' = <<>>
  /\ kw' = NoKw
  /\ result' = NoTerm
  /\ prev' = NoPrev

(* result = defns(items) *)
CallDefns ==
  LET r == defns(items) IN
  /\ result' = r.term
  /\ items' = r.items
  /\ given' = items
  /\ op' = "defns"
  /\ args' = <<>>
  /\ kw' = NoKw
  /\ prev' = Last

(* result = instrs(items) *)
CallInstrs ==
  LET r == instrs(items) IN
  /\ result' = r.term
  /\ items' = r.items
  /\ given' = items
  /\ op' = "instrs"
  /\ args' = <<>>
  /\ kw' = NoKw
  /\ prev' = Last

(* result = val_types(items) *)
CallValTypes ==
  LET r == val_types(items) IN
  /\ result' = r.term
  /\ items' = r.items
  /\ given' = items
  /\ op' = "val_types"
  /\ args' = <<>>
  /\ kw' = NoKw
  /\ prev' = Last

(* result = <instruction constant n> *)
GetInstr(n) ==
  /\ result' = INSTR[n]
  /\ op' = n
  /\ args' = <<>>
  /\ kw' = NoKw
  /\ given' = items
  /\ prev' = Last
  /\ UNCHANGED items

(* result = <value type n> *)
GetValType(n) ==
  /\ result' = VALTYPE[n]
  /\ op' = n
  /\ args' = <<>>
  /\ kw' = NoKw
  /\ given' = items
  /\ prev' = Last
  /\ UNCHANGED items

(* result = BLOCK(v, i) *)
CallBLOCK(v, i) ==
  /\ result' = BLOCK(v, i)
  /\ op' = "BLOCK"
  /\ args' = <<v, i>>
  /\ kw' = NoKw
  /\ given' = items
  /\ prev' = Last
  /\ UNCHANGED items

(* result = vec_type(v) *)
CallVecType(v) ==
  /\ result' = vec_type(v)
  /\ op' = "vec_type"
  /\ args' = <<v>>
  /\ kw' = NoKw
  /\ given' = items
  /\ prev' = Last
  /\ UNCHANGED items

(* result = func_type(p, r) *)
CallFuncType(p, r) ==
  /\ result' = func_type(p, r)
  /\ op' = "func_type"
  /\ args' = <<p, r>>
  /\ kw' = NoKw
  /\ given' = items
  /\ prev' = Last
  /\ UNCHANGED items

(* result = type(ft) or type(ft, metadata=m) *)
CallType(ft, kwargs) ==
  /\ result' = type(ft, kwargs)
  /\ op' = "type"
  /\ args' = <<ft>>
  /\ kw' = kwargs
  /\ given' = items
  /\ prev' = Last
  /\ UNCHANGED items

(* result = func(t, l, b) or func(t, l, b, metadata=m) *)
CallFunc(t, l, b, kwargs) ==
  /\ result' = func(t, l, b, kwargs)
  /\ op' = "func"
  /\ args' = <<t, l, b>>
  /\ kw' = kwargs
  /\ given' = items
  /\ prev' = Last
  /\ UNCHANGED items

(* result = module() or module(name=term, ...) *)
CallModule(kwargs) ==
  /\ result' = module(kwargs)
  /\ op' = "module"
  /\ args' = <<>>
  /\ kw' = kwargs
  /\ given' = items
  /\ prev' = Last
  /\ UNCHANGED items

ModuleParamSet == {ModuleParams[k] : k \in DOMAIN ModuleParams}

(* The sequence constructors applied to the caller's list. *)
NextSeq ==
  \/ \E list \in Lists : MakeList(list)
  \/ CallDefns
  \/ CallInstrs
  \/ CallValTypes

SpecSeq == Init /\ [][NextSeq]_vars

(* The constants and the constructors that take terms. *)
Next ==
  \/ \E n \in InstrNames : GetInstr(n)
  \/ \E n \in ValTypeNames : GetValType(n)
  \/ \E v \in ArgTerms, i \in ArgTerms : CallBLOCK(v, i)
  \/ \E v \in ArgTerms : CallVecType(v)
  \/ \E p \in ArgTerms, r \in ArgTerms : CallFuncType(p, r)
  \/ \E ft \in ArgTerms, S \in SUBSET {"metadata"} :
       \E kwargs \in [S -> MetaTerms] : CallType(ft, kwargs)
  \/ \E t \in ArgTerms, l \in ArgTerms, b \in ArgTerms, S \in SUBSET {"metadata"} :
       \E kwargs \in [S -> MetaTerms] : CallFunc(t, l, b, kwargs)
  \/ \E S \in SUBSET ModuleParamSet :
       /\ Cardinality(S) <= MaxKw
       /\ \E kwargs \in [S -> ArgTerms \cup {EMPTY_MODULE_METADATA}] : CallModule(kwargs)

Spec == Init /\ [][Next]_vars

(* ---- Properties ---- *)

ConsLabelOf(o) ==
  CASE o = "defns" -> "___WASM-COMMON-SYNTAX_Defns_Defn_Defns"
    [] o = "instrs" -> "___WASM-COMMON-SYNTAX_Instrs_Instr_Instrs"
    [] o = "val_types" -> "listValTypes"

StmtsMarker == [label |-> ".List{\"listStmt\"}_EmptyStmts", args |-> <<>>]

ValTypesMarker == [label |-> ".List{\"listValTypes\"}_ValTypes", args |-> <<>>]

EmptyMarkerOf(o) == IF o = "val_types" THEN ValTypesMarker ELSE StmtsMarker

(* cons(L[1], cons(L[2], ... cons(L[n], empty))) *)
RECURSIVE ConsChain(_, _, _)
ConsChain(klabel, empty, L) ==
  IF L = <<>>
    THEN empty
    ELSE [label |-> klabel, args |-> <<Head(L), ConsChain(klabel, empty, Tail(L))>>]

(* The heads of a cons chain, read from the outermost cell inwards. *)
RECURSIVE Unfold(_, _)
Unfold(klabel, t) ==
  IF t.label = klabel /\ Len(t.args) = 2
    THEN <<t.args[1]>> \o Unfold(klabel, t.args[2])
    ELSE <<>>

(* The innermost term of a cons chain. *)
RECURSIVE Terminator(_)
Terminator(t) == IF Len(t.args) = 2 THEN Terminator(t.args[2]) ELSE t

IdMarker == [label |-> ".Identifier", args |-> <<>>]

MapMarker == [label |-> ".Map", args |-> <<>>]

Placeholder == [label |-> "aNop", args |-> <<>>]

AllDefaultsModule ==
  [label |-> "aModuleDecl",
   args |-> <<StmtsMarker, StmtsMarker, StmtsMarker, StmtsMarker, StmtsMarker,
              StmtsMarker, StmtsMarker, StmtsMarker, StmtsMarker, StmtsMarker,
              [label |-> "moduleMeta", args |-> <<IdMarker, MapMarker>>]>>]

ComponentOrder ==
  <<"types", "funcs", "tables", "mems", "globs", "elem", "data", "start",
    "imports", "exports", "metadata">>

(* C1: the term a sequence constructor returns for a list L is the       *)
(* right-nested cons chain of L under that kind's cons label, and        *)
(* unfolding it head to tail gives back L in its original order.         *)
C1_FoldIsConsChain ==
  op \in SeqOps =>
    /\ result = ConsChain(ConsLabelOf(op), EmptyMarkerOf(op), given)
    /\ Unfold(ConsLabelOf(op), result) = given

C1_Witness ==
  /\ op = "instrs"
  /\ Len(given) = 3
  /\ given[1] # given[3]
  /\ result.args[1] = given[1]

(* C2: a call of a sequence constructor leaves the caller's list with    *)
(* the elements it had before the call, so a second call on the same     *)
(* list variable returns a term equal to the first call's.               *)
C2_InputListUntouched ==
  /\ op \in SeqOps => items = given
  /\ (op \in SeqOps /\ prev.op = op) => result = prev.result

(* C3: folding the empty list returns the kind's zero-child empty        *)
(* marker: the empty-statements marker for defns and instrs, the         *)
(* value-type nil marker for val_types.                                  *)
C3_EmptyListIsMarker ==
  (op \in SeqOps /\ given = <<>>) =>
    /\ result.args = <<>>
    /\ op \in {"defns", "instrs"} => result = StmtsMarker
    /\ op = "val_types" => result = ValTypesMarker

C3_Witness == op = "val_types" /\ given = <<>> /\ result = ValTypesMarker

(* C4: module() is the module-labelled term with 11 children: ten empty  *)
(* declaration sequences followed by the empty module metadata.          *)
C4_ModuleDefaults ==
  (op = "module" /\ DOMAIN kw = {}) =>
    /\ Len(result.args) = 11
    /\ result = AllDefaultsModule

C4_Witness == op = "module" /\ DOMAIN kw = {} /\ result.label = "aModuleDecl"

(* C5: module(k=t) holds t at the position of component k and equals     *)
(* module() at every other position; module(funcs=instrs([p])) differs   *)
(* from module() at position 2 only.                                     *)
C5_ModuleOneComponent ==
  (op = "module" /\ Cardinality(DOMAIN kw) = 1) =>
    /\ result.label = AllDefaultsModule.label
    /\ Len(result.args) = 11
    /\ \A k \in 1..11 :
         result.args[k] =
           IF ComponentOrder[k] \in DOMAIN kw
             THEN kw[ComponentOrder[k]]
             ELSE AllDefaultsModule.args[k]

C5_Witness ==
  /\ op = "module"
  /\ DOMAIN kw = {"funcs"}
  /\ kw["funcs"] = [label |-> "___WASM-COMMON-SYNTAX_Instrs_Instr_Instrs",
                    args |-> <<Placeholder, StmtsMarker>>]
  /\ result.args[2] = kw["funcs"]
  /\ result.args[1] = StmtsMarker

(* C6: BLOCK(v, i) is the term under the block label whose children are  *)
(* v then i.                                                             *)
C6_BlockChildren ==
  op = "BLOCK" => result = [label |-> "aBlock", args |-> <<args[1], args[2]>>]

C6_Witness == op = "BLOCK" /\ args[1] # args[2] /\ result.args[1] = args[1]

(* C7: every instruction constant is the one zero-child placeholder      *)
(* term, equal to every other instruction constant, and no term BLOCK    *)
(* returns equals it.                                                    *)
C7_SharedPlaceholder ==
  /\ op \in InstrNames =>
       /\ result = Placeholder
       /\ \A n \in InstrNames : result = INSTR[n]
  /\ op = "BLOCK" =>
       /\ result # Placeholder
       /\ \A n \in InstrNames : result # INSTR[n]

C7_Witness == op = "BR" /\ result = Placeholder

(* C8 as claimed: type(ft) has as second child a metadata term pairing   *)
(* the empty identifier with the empty map, not the bare empty           *)
(* identifier.                                                           *)
C8_TypeDefaultIsMetadataTerm ==
  (op = "type" /\ DOMAIN kw = {}) =>
    /\ result.args[1] = args[1]
    /\ result.args[2].args = <<IdMarker, MapMarker>>
    /\ result.args[2] # IdMarker

(* C8 amended: type(ft) is the type-declaration term with children ft    *)
(* and the bare empty-identifier marker.                                 *)
C8_TypeDefaultIsEmptyId ==
  (op = "type" /\ DOMAIN kw = {}) =>
    result = [label |-> "aTypeDefn", args |-> <<args[1], IdMarker>>]

C8_Witness == op = "type" /\ DOMAIN kw = {} /\ Len(result.args) = 2

(* C9 as claimed: results of two different sequence constructors end in  *)
(* different empty markers.                                              *)
C9_MarkersPairwiseDistinct ==
  (op \in SeqOps /\ prev.op \in SeqOps /\ prev.op # op) =>
    Terminator(result) # Terminator(prev.result)

(* C9 amended: defns and instrs results end in the same empty-statements *)
(* marker; val_types results end in the value-type nil marker, which     *)
(* differs from it.                                                      *)
C9_MarkerPerKind ==
  op \in SeqOps =>
    /\ Terminator(result) = EmptyMarkerOf(op)
    /\ prev.op \in SeqOps =>
         ((Terminator(result) = Terminator(prev.result))
            <=> ((op = "val_types") <=> (prev.op = "val_types")))

C9_Witness ==
  /\ op = "val_types"
  /\ prev.op = "defns"
  /\ Len(prev.result.args) = 2
  /\ Terminator(prev.result) = StmtsMarker

(* C10: i32, i64, f32 and f64 are zero-child terms labelled by their own *)
(* names, pairwise distinct, and one-element value-type lists of two     *)
(* different value types are different terms.                            *)
C10_ValTypesDistinct ==
  op \in ValTypeNames =>
    /\ result = [label |-> op, args |-> <<>>]
    /\ \A n \in ValTypeNames \ {op} :
         /\ result # VALTYPE[n]
         /\ val_types(<<result>>).term # val_types(<<VALTYPE[n]>>).term

C10_Witness == op = "i64" /\ result # i32 /\ result.args = <<>>

====
